---- MODULE Spec2Model ----
(***************************************************************************)
(* Receive loop and subscription fan-out of WikiMonitorBOT.                *)
(*                                                                         *)
(* The repository holds two implementations of the same loop:              *)
(*   wiki_listener.stream_changes      (blocking, requests + sseclient)    *)
(*   main.WikiMonitorBot.listen_to_events   (asyncio, aiohttp)             *)
(* The variable impl says which of the two a behaviour runs.  The registry *)
(* is main.settings (written by set_wiki / set_events) or the              *)
(* monitored_groups dictionary (written by Historybot.subscribe).          *)
(***************************************************************************)
EXTENDS Integers, Sequences, FiniteSets, TLC

\* ------------------------------------------------------------------ domains
\* Python's None, also the result of dict.get on an absent key.
None == "None"

Impls == {"wiki_listener", "main"}

Subscribers == {1, 2}

Wikis == {"enwiki", "bnwiki"}

\* Values of the `events` list of a subscriber.
EventLists == {<< >>, <<"edit">>, <<"block", "edit", "edit">>}

\* Source ids carried by the records of the stream.
StreamWikis == {"enwiki"}

\* Values of the `type` and `log_type` fields of a record.
Types == {"edit", "log"}

LogTypes == {"block", "log"}

\* Event-type markers of a frame other than "no marker".
Markers == {"message", "error"}

\* HTTP statuses a connection attempt can return.
Statuses == {200, 204, 304, 404, 503}

RECONNECT_DELAY == 5

\* Cap of the history counter of consecutive failed connection attempts.
MaxFails == 2

\* One frame of the stream.  body says what the data payload is:
\*   "comment"    a comment / keep-alive line, no data payload
\*   "badjson"    a data payload json.loads rejects
\*   "notobject"  valid JSON that is not an object (list, number, null, ...)
\*   "object"     a JSON object; wiki, type, log_type are its fields or None
\* nested is the source id found inside a nested object of the record (None:
\* no such object) when the record has no top-level wiki field.
Frames ==
    {[marker |-> None, body |-> "comment", wiki |-> None, nested |-> None,
      type |-> None, log_type |-> None]}
    \cup [marker : Markers \cup {None}, body : {"badjson", "notobject"},
          wiki : {None}, nested : {None}, type : {None}, log_type : {None}]
    \cup [marker : Markers \cup {None}, body : {"object"},
          wiki : StreamWikis, nested : {None}, type : Types \cup {None},
          log_type : LogTypes \cup {None}]
    \cup [marker : Markers \cup {None}, body : {"object"},
          wiki : {None}, nested : StreamWikis \cup {None},
          type : Types \cup {None}, log_type : LogTypes \cup {None}]

NoFrame == [marker |-> None, body |-> "none", wiki |-> None, nested |-> None,
            type |-> None, log_type |-> None]

\* A registry entry.  wiki = None: the entry has no "wiki" key;
\* hasEvents = FALSE: the entry has no "events" key.
NoEntry == [wiki |-> None, events |-> << >>, hasEvents |-> FALSE]

\* Entries of main.settings: set_wiki and set_events each add one key.
SettingsEntries ==
    {e \in [wiki : Wikis \cup {None}, events : EventLists, hasEvents : BOOLEAN] :
        /\ (~e.hasEvents => e.events = << >>)
        /\ (e.wiki # None \/ e.hasEvents)}

\* Entries of monitored_groups: GroupConfig(wiki: str, events: list[str]).
GroupConfig == [wiki : Wikis, events : EventLists, hasEvents : {TRUE}]

Entries(i) == IF i = "main" THEN SettingsEntries ELSE GroupConfig

\* Insertion orders of a dictionary over the subscribers (no repetition).
Orders ==
    {o \in UNION {[1..n -> Subscribers] : n \in 0..Cardinality(Subscribers)} :
        \A a, b \in DOMAIN o : a # b => o[a] # o[b]}

Keys(o) == {o[k] : k \in DOMAIN o}

\* x in list
In(x, list) == \E k \in DOMAIN list : list[k] = x

VARIABLES
    impl,         \* which implementation runs
    settings,     \* registry: subscriber -> entry (NoEntry when not a key)
    order,        \* insertion order of the registry's keys
    pc,           \* position of the receive loop
    session,      \* the response / stream session: "none", "open", "closed"
    frame,        \* frame being processed (NoFrame outside processing)
    change_type,  \* normalized kind of the record being dispatched
    idx,          \* position of the registry iterator
    iterLen,      \* size of the registry when the iteration started
    config,       \* entry yielded by the iterator, while it is tested
    group_id,     \* subscriber whose delivery is running
    calls,        \* history: callback invocations per subscriber, this record
    failed,       \* history: subscribers whose delivery failed, this record
    disturbed,    \* history: registry written during this record's dispatch
    touched,      \* history: subscribers written during this record's dispatch
    last,         \* outcome of the record at pc = "processed"
    afterDrop,    \* history: previous record of this session was malformed
    cancelled,    \* a cancellation signal has arrived
    status,       \* history: status of the latest attempt (0: no response)
    cause,        \* history: how the latest attempt / session ended
    waited,       \* history: seconds slept since the latest attempt ended
    fails         \* history: consecutive failed attempts (capped)

vars == <<impl, settings, order, pc, session, frame, change_type, idx, iterLen,
          config, group_id, calls, failed, disturbed, touched, last, afterDrop,
          cancelled, status, cause, waited, fails>>

dispatchVars == <<frame, change_type, idx, iterLen, config, group_id, calls,
                  failed, disturbed, touched, last>>

connVars == <<status, cause, waited, fails>>

regVars == <<settings, order>>

NoCalls == [s \in Subscribers |-> 0]

InDispatch == pc \in {"iter", "test", "deliver", "processed"}

\* Positions at which listen_to_events is suspended at an await, so that
\* other coroutines of the event loop run.
AwaitPoints == {"connect", "read", "deliver", "sleep"}

\* ------------------------------------------------------------ pure helpers
\* Only frames the implementation hands to json.loads.
Forwarded(i, f) ==
    IF i = "wiki_listener"
    THEN f.body # "comment" /\ (IF f.marker = None THEN "message" ELSE f.marker) = "message"
    ELSE f.body # "comment"

\* Mutant of NormalizeKind: the log_type replacement is left out.
NormalizeKindRaw(f) ==
    IF f.type = None THEN "unknown" ELSE f.type

\* change.get("type", "unknown"), then the log_type replacement.
NormalizeKind(f) ==
    LET t == IF f.type = None THEN "unknown" ELSE f.type
    IN  IF t = "log"
        THEN (IF f.log_type = None THEN t ELSE f.log_type)
        ELSE t

\* change.get("wiki") / event.get("wiki"): the source id of the record is its
\* top-level field and nothing else.
SourceId(f) == f.wiki

\* The `type` field of the record handed to the callback:
\* callback(group_id, change) / send_change(int(group_id), event) pass the
\* decoded record itself, which the normalization does not modify.
DeliveredType(f) == f.type

\* Mutant of WikiEquals: the source id is not compared.
WikiEqualsAlways(i, c, wiki) ==
    TRUE

\* The if of the subscriber loop, left operand of `and`:
\* config.wiki == wiki / config.get("wiki") == wiki.
WikiEquals(i, c, wiki) ==
    c.wiki = wiki

\* Right operand, evaluated only when the left one holds:
\* change_type in config.events / change_type in config.get("events", []).
KindListed(i, c, kind) ==
    IF i = "wiki_listener"
    THEN In(kind, c.events)
    ELSE In(kind, IF c.hasEvents THEN c.events ELSE << >>)

\* Mutant of StatusFails: only server errors count as a failed attempt.
StatusFailsServerOnly(i, st) ==
    st >= 500 /\ st < 600

\* Does the implementation treat a response status as a failed attempt?
StatusFails(i, st) ==
    IF i = "wiki_listener"
    THEN st >= 400 /\ st < 600
    ELSE st # 200

Bump(n) == IF n < MaxFails THEN n + 1 ELSE n

\* -------------------------------------------------------------------- Init
Init ==
    /\ impl \in Impls
    /\ order \in Orders
    /\ settings \in [Subscribers -> Entries(impl) \cup {NoEntry}]
    /\ \A s \in Subscribers : (settings[s] = NoEntry) <=> (s \notin Keys(order))
    /\ pc = "connect"
    /\ session = "none"
    /\ frame = NoFrame
    /\ change_type = None
    /\ idx = 0
    /\ iterLen = 0
    /\ config = NoEntry
    /\ group_id = 0
    /\ calls = NoCalls
    /\ failed = {}
    /\ disturbed = FALSE
    /\ touched = {}
    /\ last = "none"
    /\ afterDrop = FALSE
    /\ cancelled = FALSE
    /\ status = 0
    /\ cause = "none"
    /\ waited = 0
    /\ fails = 0

\* ----------------------------------------------------- connection manager
\* requests.get / session.get raises: no response object is produced.
ConnectError ==
    /\ pc = "connect"
    /\ pc' = "sleep"
    /\ status' = 0
    /\ cause' = "reqerr"
    /\ waited' = 0
    /\ fails' = Bump(fails)
    /\ UNCHANGED <<impl, regVars, session, dispatchVars, afterDrop, cancelled>>

\* The request returns a response with status st.
ConnectResponse(st) ==
    /\ pc = "connect"
    /\ status' = st
    /\ session' = "open"
    /\ waited' = 0
    /\ IF StatusFails(impl, st)
       THEN /\ pc' = "sleep"
            /\ cause' = "status"
            /\ fails' = Bump(fails)
       ELSE /\ pc' = "read"
            /\ cause' = "none"
            /\ fails' = 0
    /\ UNCHANGED <<impl, regVars, dispatchVars, afterDrop, cancelled>>

\* Mutant of SleepDone: a retry limit, the loop gives up after MaxFails
\* consecutive failures.
SleepDoneGivesUp ==
    /\ pc = "sleep"
    /\ pc' = IF fails >= MaxFails THEN "exited" ELSE "connect"
    /\ waited' = waited + RECONNECT_DELAY
    /\ session' = IF impl = "main" /\ session = "open" THEN "closed" ELSE session
    /\ UNCHANGED <<impl, regVars, dispatchVars, afterDrop, cancelled, status,
                   cause, fails>>

\* time.sleep(RECONNECT_DELAY) / asyncio.sleep(RECONNECT_DELAY) returns.
\* In main the non-200 branch sleeps inside `async with`, whose exit (at
\* `continue`) closes the response.
SleepDone ==
    /\ pc = "sleep"
    /\ pc' = "connect"
    /\ waited' = waited + RECONNECT_DELAY
    /\ session' = IF impl = "main" /\ session = "open" THEN "closed" ELSE session
    /\ UNCHANGED <<impl, regVars, dispatchVars, afterDrop, cancelled, status,
                   cause, fails>>

\* The stream ends without an error: the for loop over the stream finishes
\* and control falls to the end of the try, back to `while True`.
StreamEnd ==
    /\ pc = "read"
    /\ pc' = "connect"
    /\ session' = "closed"
    /\ cause' = "eof"
    /\ waited' = 0
    /\ afterDrop' = FALSE
    /\ UNCHANGED <<impl, regVars, dispatchVars, cancelled, status, fails>>

\* Mutant of ReadError: an exception that is no transport error escapes
\* the loop (the last `except Exception` is missing).
ReadErrorEscapes(e) ==
    /\ pc = "read"
    /\ pc' = IF e = "io" THEN "sleep" ELSE "exited"
    /\ session' = IF impl = "main" \/ e = "io" THEN "closed" ELSE session
    /\ cause' = "readerr"
    /\ waited' = 0
    /\ fails' = Bump(fails)
    /\ afterDrop' = FALSE
    /\ UNCHANGED <<impl, regVars, dispatchVars, cancelled, status>>

\* Reading the stream raises.  e = "io": a transport error (the transport
\* drops the connection); e = "other": any other exception.
ReadError(e) ==
    /\ pc = "read"
    /\ pc' = "sleep"
    /\ session' = IF impl = "main" \/ e = "io" THEN "closed" ELSE session
    /\ cause' = "readerr"
    /\ waited' = 0
    /\ fails' = Bump(fails)
    /\ afterDrop' = FALSE
    /\ UNCHANGED <<impl, regVars, dispatchVars, cancelled, status>>

\* KeyboardInterrupt (wiki_listener: re-raised, nothing closes the response)
\* or task cancellation (main: CancelledError leaves `async with`, which
\* closes the response).  Neither is caught by an `except Exception`.
\* KeyboardInterrupt can arrive at any statement; a task is cancelled
\* while it is suspended at an await.
\* The function's frame is gone: the record in progress is abandoned.
Cancel ==
    /\ pc # "exited"
    /\ impl = "main" => pc \in AwaitPoints
    /\ pc' = "exited"
    /\ cancelled' = TRUE
    /\ session' = IF impl = "main" /\ session = "open" THEN "closed" ELSE session
    /\ frame' = NoFrame
    /\ change_type' = None
    /\ idx' = 0
    /\ iterLen' = 0
    /\ config' = NoEntry
    /\ group_id' = 0
    /\ calls' = NoCalls
    /\ failed' = {}
    /\ disturbed' = FALSE
    /\ touched' = {}
    /\ last' = "none"
    /\ afterDrop' = FALSE
    /\ UNCHANGED <<impl, regVars, connVars>>

\* ------------------------------------------------- normalizer + dispatcher
\* A frame the loop does not hand to json.loads.
Skip(f) ==
    /\ UNCHANGED vars

\* Mutant of Drop: the record's try has no except clause, the error reaches
\* the handler of the connection and the loop reconnects.
DropReconnects(f) ==
    /\ pc' = "sleep"
    /\ frame' = f
    /\ last' = "dropped"
    /\ cause' = "readerr"
    /\ waited' = 0
    /\ fails' = Bump(fails)
    /\ UNCHANGED <<impl, regVars, session, change_type, idx, iterLen, config,
                   group_id, calls, failed, disturbed, touched, afterDrop,
                   cancelled, status>>

\* json.loads fails, or the result has no .get: the except clauses of the
\* record's try report it and the for loop over the stream goes on.
Drop(f) ==
    /\ pc' = "processed"
    /\ frame' = f
    /\ last' = "dropped"
    /\ UNCHANGED <<impl, regVars, session, change_type, idx, iterLen, config,
                   group_id, calls, failed, disturbed, touched, afterDrop,
                   cancelled, connVars>>

\* The record decodes to an object: normalize, then start the subscriber loop.
Dispatch(f) ==
    /\ pc' = "iter"
    /\ frame' = f
    /\ change_type' = NormalizeKind(f)
    /\ idx' = 1
    /\ iterLen' = Len(order)
    /\ calls' = NoCalls
    /\ failed' = {}
    /\ disturbed' = FALSE
    /\ touched' = {}
    /\ UNCHANGED <<impl, regVars, session, config, group_id, last, afterDrop,
                   cancelled, connVars>>

\* Mutant of ReadFrame: the next frame is decoded while a delivery of the
\* previous record is still running.
ReadFrameConcurrent(f) ==
    /\ pc \in {"read", "deliver"}
    /\ IF ~Forwarded(impl, f) THEN Skip(f)
       ELSE IF f.body # "object" THEN Drop(f)
       ELSE Dispatch(f)

\* One step of `for event in client.events()` / `async for line in
\* response.content`, taken only when the body of the previous step is over.
ReadFrame(f) ==
    /\ pc = "read"
    /\ IF ~Forwarded(impl, f) THEN Skip(f)
       ELSE IF f.body # "object" THEN Drop(f)
       ELSE Dispatch(f)

\* One step of `for group_id, config in <registry>.items()`: the iterator
\* raises RuntimeError when the dictionary's size changed, stops at the end,
\* and otherwise yields the next entry, bound to the local `config`, whose
\* wiki is read and compared (left operand of the `and`).
IterNext ==
    /\ pc = "iter"
    /\ IF Len(order) # iterLen
       THEN /\ pc' = "processed"
            /\ last' = "error"
            /\ UNCHANGED <<idx, config>>
       ELSE IF idx > Len(order)
       THEN /\ pc' = "processed"
            /\ last' = "done"
            /\ UNCHANGED <<idx, config>>
       ELSE IF WikiEquals(impl, settings[order[idx]], SourceId(frame))
       THEN /\ pc' = "test"
            /\ config' = settings[order[idx]]
            /\ UNCHANGED <<idx, last>>
       ELSE /\ idx' = idx + 1
            /\ UNCHANGED <<pc, config, last>>
    /\ UNCHANGED <<impl, regVars, session, frame, change_type, iterLen, group_id,
                   calls, failed, disturbed, touched, afterDrop, cancelled,
                   connVars>>

\* The right operand of the `and` reads the kinds list of the same `config`
\* object; on a match the callback is called.
TestEvents ==
    /\ pc = "test"
    /\ config' = NoEntry
    /\ IF KindListed(impl, config, change_type)
       THEN /\ pc' = "deliver"
            /\ group_id' = order[idx]
            /\ calls' = [calls EXCEPT ![order[idx]] = @ + 1]
            /\ UNCHANGED idx
       ELSE /\ pc' = "iter"
            /\ idx' = idx + 1
            /\ UNCHANGED <<group_id, calls>>
    /\ UNCHANGED <<impl, regVars, session, frame, change_type, iterLen, failed,
                   disturbed, touched, last, afterDrop, cancelled, connVars>>

\* Mutant of DeliverReturn: the callback's exception is not caught around
\* the call; it ends the subscriber loop in the record's except clause.
DeliverReturnEscapes(ok) ==
    /\ pc = "deliver"
    /\ pc' = IF ok THEN "iter" ELSE "processed"
    /\ last' = IF ok THEN last ELSE "error"
    /\ idx' = idx + 1
    /\ failed' = IF ok THEN failed ELSE failed \cup {group_id}
    /\ UNCHANGED <<impl, regVars, session, frame, change_type, iterLen, config,
                   group_id, calls, disturbed, touched, afterDrop, cancelled,
                   connVars>>

\* Mutant of DeliverReturn: the callback's exception reaches the handler of
\* the connection, which closes the session and reconnects after the delay.
DeliverReturnReconnects(ok) ==
    /\ pc = "deliver"
    /\ pc' = IF ok THEN "iter" ELSE "sleep"
    /\ idx' = idx + 1
    /\ failed' = IF ok THEN failed ELSE failed \cup {group_id}
    /\ session' = IF ok THEN session ELSE "closed"
    /\ cause' = IF ok THEN cause ELSE "readerr"
    /\ fails' = IF ok THEN fails ELSE Bump(fails)
    /\ UNCHANGED <<impl, regVars, frame, change_type, iterLen, config, group_id,
                   calls, disturbed, touched, last, afterDrop, cancelled, status,
                   waited>>

\* Mutant of DeliverReturn: a failed delivery is retried, the iterator does
\* not advance past the subscriber whose callback raised.
DeliverReturnRetries(ok) ==
    /\ pc = "deliver"
    /\ pc' = "iter"
    /\ idx' = IF ok THEN idx + 1 ELSE idx
    /\ failed' = IF ok THEN failed ELSE failed \cup {group_id}
    /\ UNCHANGED <<impl, regVars, session, frame, change_type, iterLen, config,
                   group_id, calls, disturbed, touched, last, afterDrop, cancelled,
                   connVars>>

\* The callback returns (ok) or raises an Exception (~ok).  wiki_listener
\* catches it around the call; main.send_change catches it itself.
DeliverReturn(ok) ==
    /\ pc = "deliver"
    /\ pc' = "iter"
    /\ idx' = idx + 1
    /\ failed' = IF ok THEN failed ELSE failed \cup {group_id}
    /\ UNCHANGED <<impl, regVars, session, frame, change_type, iterLen, config,
                   group_id, calls, disturbed, touched, last, afterDrop, cancelled,
                   connVars>>

\* The record is finished (end of the try, or of its except clause): the
\* loop over the stream asks for the next frame.
NextRecord ==
    /\ pc = "processed"
    /\ pc' = "read"
    /\ afterDrop' = (last = "dropped")
    /\ frame' = NoFrame
    /\ change_type' = None
    /\ idx' = 0
    /\ iterLen' = 0
    /\ config' = NoEntry
    /\ group_id' = 0
    /\ calls' = NoCalls
    /\ failed' = {}
    /\ disturbed' = FALSE
    /\ touched' = {}
    /\ last' = "none"
    /\ UNCHANGED <<impl, regVars, session, cancelled, connVars>>

\* ----------------------------------------------------------- registry writers
Upsert(s) == IF s \in Keys(order) THEN order ELSE Append(order, s)

\* main.set_wiki: settings.setdefault(chat_id, {})["wiki"] = args[0].
\* A coroutine of the same event loop: it runs while listen_to_events is
\* suspended at an await.
set_wiki(s, w) ==
    /\ impl = "main"
    /\ pc \in AwaitPoints \cup {"exited"}
    /\ settings' = [settings EXCEPT ![s].wiki = w]
    /\ order' = Upsert(s)
    /\ settings' # settings
    /\ disturbed' = (disturbed \/ InDispatch)
    /\ touched' = IF InDispatch THEN touched \cup {s} ELSE touched
    /\ UNCHANGED <<impl, pc, session, frame, change_type, idx, iterLen, config,
                   group_id, calls, failed, last, afterDrop, cancelled, connVars>>

\* main.set_events: settings.setdefault(chat_id, {})["events"] = args.
set_events(s, evs) ==
    /\ impl = "main"
    /\ pc \in AwaitPoints \cup {"exited"}
    /\ evs # << >>
    /\ settings' = [settings EXCEPT ![s].events = evs, ![s].hasEvents = TRUE]
    /\ order' = Upsert(s)
    /\ settings' # settings
    /\ disturbed' = (disturbed \/ InDispatch)
    /\ touched' = IF InDispatch THEN touched \cup {s} ELSE touched
    /\ UNCHANGED <<impl, pc, session, frame, change_type, idx, iterLen, config,
                   group_id, calls, failed, last, afterDrop, cancelled, connVars>>

\* Mutant of subscribe: the existing entry object is updated in place, so the
\* write is seen through the reference the subscriber loop holds.
subscribeInPlace(s, w, evs) ==
    /\ impl = "wiki_listener"
    /\ evs # << >>
    /\ settings' = [settings EXCEPT ![s] = [wiki |-> w, events |-> evs, hasEvents |-> TRUE]]
    /\ order' = Upsert(s)
    /\ settings' # settings
    /\ disturbed' = (disturbed \/ InDispatch)
    /\ touched' = IF InDispatch THEN touched \cup {s} ELSE touched
    /\ config' = IF pc = "test" /\ order[idx] = s THEN settings'[s] ELSE config
    /\ UNCHANGED <<impl, pc, session, frame, change_type, idx, iterLen,
                   group_id, calls, failed, last, afterDrop, cancelled, connVars>>

\* Historybot.subscribe: monitored_groups[chat_id] = {wiki, events}, from
\* another thread than the blocking stream_changes.  The entry is modelled
\* with the fields stream_changes reads (GroupConfig.wiki, .events).
subscribe(s, w, evs) ==
    /\ impl = "wiki_listener"
    /\ evs # << >>
    /\ settings' = [settings EXCEPT ![s] = [wiki |-> w, events |-> evs, hasEvents |-> TRUE]]
    /\ order' = Upsert(s)
    /\ settings' # settings
    /\ disturbed' = (disturbed \/ InDispatch)
    /\ touched' = IF InDispatch THEN touched \cup {s} ELSE touched
    /\ UNCHANGED <<impl, pc, session, frame, change_type, idx, iterLen, config,
                   group_id, calls, failed, last, afterDrop, cancelled, connVars>>

\* ------------------------------------------------------------ specification
Next ==
    \/ ConnectError
    \/ \E st \in Statuses : ConnectResponse(st)
    \/ SleepDone
    \/ StreamEnd
    \/ \E e \in {"io", "other"} : ReadError(e)
    \/ Cancel
    \/ \E f \in Frames : ReadFrame(f)
    \/ IterNext
    \/ TestEvents
    \/ \E ok \in BOOLEAN : DeliverReturn(ok)
    \/ NextRecord
    \/ \E s \in Subscribers, w \in Wikis : set_wiki(s, w)
    \/ \E s \in Subscribers, evs \in EventLists : set_events(s, evs)
    \/ \E s \in Subscribers, w \in Wikis, evs \in EventLists : subscribe(s, w, evs)

Spec == Init /\ [][Next]_vars

\* The sleep of the reconnect delay returns; nothing else is assumed.
LiveSpec == Spec /\ WF_vars(SleepDone)

\* Every step the loop takes by itself is taken: the sleep returns, the
\* subscriber loop advances, the record's try block ends.  Nothing is
\* assumed of the callback, whose return is not in the loop's hands: the
\* call `callback(group_id, change)` / `await self.send_change(...)` is made
\* without a timeout.
LoopSpec ==
    Spec /\ WF_vars(SleepDone) /\ WF_vars(IterNext) /\ WF_vars(TestEvents)
         /\ WF_vars(NextRecord)

TypeOK ==
    /\ impl \in Impls
    /\ order \in Orders
    /\ settings \in [Subscribers -> Entries(impl) \cup {NoEntry}]
    /\ pc \in {"connect", "read", "iter", "test", "deliver", "processed", "sleep",
               "exited"}
    /\ config \in Entries(impl) \cup {NoEntry}
    /\ touched \subseteq Subscribers
    /\ session \in {"none", "open", "closed"}
    /\ frame \in Frames \cup {NoFrame}
    /\ idx \in 0..(Cardinality(Subscribers) + 1)
    /\ calls \in [Subscribers -> 0..1]
    /\ failed \subseteq Subscribers
    /\ waited \in {0, RECONNECT_DELAY}
    /\ fails \in 0..MaxFails

\* ==================================================================== claims
\* A subscriber is interested in the record being dispatched: its source id
\* equals the record's (an absent field reads as None on both sides) and the
\* normalized kind is in its kinds list (an absent list is empty).
Interested(s) ==
    /\ s \in Keys(order)
    /\ settings[s].wiki = frame.wiki
    /\ \E k \in 1..Len(settings[s].events) : settings[s].events[k] = change_type

Malformed == {"badjson", "notobject"}

\* C1: for a registry that is not written while the record is dispatched, no
\* callback is invoked for a subscriber that is not interested, and when the
\* subscriber loop has finished the callback has been invoked for exactly the
\* interested subscribers; a subscriber with an empty or missing kinds list
\* gets nothing.
C1_DeliverIffMatch ==
    (InDispatch /\ ~disturbed) =>
        /\ \A s \in Subscribers : calls[s] >= 1 => Interested(s)
        /\ \A s \in Subscribers : settings[s].events = << >> => calls[s] = 0
        /\ (pc = "processed" /\ last = "done") =>
               \A s \in Subscribers : Interested(s) => calls[s] >= 1
        /\ (pc = "processed" /\ frame.body = "object") => last = "done"

C1_Witness ==
    /\ pc = "processed" /\ last = "done" /\ ~disturbed
    /\ Len(order) = 2
    /\ \E s, t \in Subscribers : calls[s] = 1 /\ calls[t] = 0

\* C2: when a delivery of the record failed (registry not written meanwhile),
\* the record's processing ends only after a delivery was attempted for
\* every interested subscriber, whatever the order of the registry.
C2_FaultIsolation ==
    (pc = "processed" /\ ~disturbed /\ failed # {}) =>
        \A s \in Subscribers : Interested(s) => calls[s] >= 1

C2_Witness ==
    /\ pc = "processed" /\ ~disturbed
    /\ Len(order) = 2
    /\ failed = {order[1]}
    /\ calls[order[2]] = 1

\* C3 (as claimed): every connection attempt after the first is made after
\* exactly one reconnect delay since the previous attempt or session ended.
C3_OneDelayBeforeRetry ==
    (pc = "connect" /\ cause # "none") => waited = RECONNECT_DELAY

\* C4: the loop leaves the function only on a cancellation signal.
C4_ExitsOnlyOnCancel ==
    pc = "exited" => cancelled

C4_Witness ==
    /\ ~cancelled
    /\ pc = "sleep"
    /\ cause = "readerr"
    /\ session = "open"
    /\ fails >= 1

\* C5: from the reconnect wait the loop always reaches another connection
\* attempt unless it is cancelled, after any number of failures, and an
\* attempt answered with 200 puts the loop back to reading records.
C5_RetryUnbounded ==
    /\ (pc = "sleep") ~> (pc = "connect" \/ cancelled)
    /\ [][(pc = "connect" /\ pc' \notin {"connect", "exited"} /\ status' = 200)
            => (pc' = "read" /\ fails' = 0 /\ session' = "open")]_vars

C5_Witness ==
    /\ ~cancelled
    /\ pc = "connect"
    /\ waited = RECONNECT_DELAY
    /\ fails = MaxFails

C7_CancelClosesSession ==
    cancelled => (pc = "exited" /\ session # "open")

\* C8 (as claimed): a frame that is decoded, reported as malformed,
\* dispatched or delivered carries the marker `message` or no marker.
C8_OnlyMessageFrames ==
    InDispatch => frame.marker \in {"message", None}

C10_KindNeverLog ==
    (InDispatch /\ frame.body = "object" /\ frame.type # None /\ frame.log_type # None)
        => change_type # "log"

\* C10 (amended): for a record with a type and a log_type the kind is the
\* value of log_type when type is "log" and the type unchanged otherwise, so
\* it is "log" only when the value of log_type is itself "log"; without a
\* log_type a record of type "log" keeps the kind "log".
C10_KindNormalized ==
    (InDispatch /\ frame.body = "object" /\ frame.type # None) =>
        /\ (frame.type = "log" /\ frame.log_type # None) => change_type = frame.log_type
        /\ (frame.type = "log" /\ frame.log_type = None) => change_type = "log"
        /\ frame.type # "log" => change_type = frame.type
        /\ (frame.log_type # None /\ change_type = "log") => frame.log_type = "log"

C10_Witness ==
    /\ pc = "deliver"
    /\ frame.type = "log"
    /\ frame.log_type = "block"
    /\ change_type = "block"

\* C11 (as claimed): the kind carried by the event handed to the callback
\* is the normalized kind that was tested against the subscriber's filter.
C11_DeliveredKindIsMatchedKind ==
    pc = "deliver" => DeliveredType(frame) = change_type

\* C12 (as claimed): a registry write that interleaves with the dispatch of
\* a record does not corrupt the iteration: when the record's processing is
\* over the iteration has finished, and a delivery was attempted for every
\* interested subscriber that was a key before the dispatch began and was
\* not written during it.
C12_WriteKeepsIteration ==
    (pc = "processed" /\ frame.body = "object") =>
        /\ last = "done"
        /\ \A s \in Keys(order) \ touched : Interested(s) => calls[s] >= 1

\* C13: the two field reads of one match test go to the same version of the
\* entry.  Between the read of the source id and the read of the kinds list
\* the entry under test does not change, the source id that was compared is
\* the one of the entry whose kinds list is read next, and in main no
\* registry write happens at all between the two reads.
C13_NoTornEntry ==
    [][ /\ (pc = "test" /\ pc' = "test") => config' = config
        /\ pc' = "test" => (config' # NoEntry /\ config'.wiki = frame'.wiki)
        /\ (impl = "main" /\ pc = "test") => settings' = settings
        /\ (impl = "main" /\ pc' = "test") => settings'[order'[idx']] = config' ]_vars

\* A write replaced the entry between the two reads; the test goes on with
\* the version it started with.
C13_Witness ==
    /\ pc = "test"
    /\ settings[order[idx]] # config
    /\ settings[order[idx]].wiki # config.wiki
    /\ settings[order[idx]].events # config.events

\* C14 (as claimed): a record without a top-level wiki field whose source id
\* is present at the nested location is delivered to the subscribers of that
\* source id whose kinds list holds the record's kind.
C14_NestedSourceIdUsed ==
    (/\ pc = "processed" /\ last = "done" /\ ~disturbed
     /\ frame.wiki = None /\ frame.nested # None) =>
        \A s \in Keys(order) :
            (settings[s].wiki = frame.nested /\ In(change_type, settings[s].events))
                => calls[s] >= 1

\* C15: a callback that raises changes nothing of the connection: the step
\* in which a delivery fails leaves the session open and the connection
\* history untouched and returns to the subscriber loop, no reconnect delay
\* or connection attempt follows while the record is processed, and the
\* record's processing ends at the read of the next record of the same
\* session.
C15_DeliveryFailureContained ==
    [][ /\ (pc = "deliver" /\ group_id \in failed' \ failed) =>
               /\ session = "open" /\ session' = "open"
               /\ pc' = "iter"
               /\ UNCHANGED connVars
        /\ (failed # {} /\ ~cancelled') =>
               /\ session' = "open"
               /\ pc' \in {"iter", "test", "deliver", "processed", "read"}
               /\ UNCHANGED connVars
        /\ (failed # {} /\ pc = "processed" /\ pc' # pc /\ ~cancelled') =>
               pc' = "read" ]_vars

C15_Witness ==
    /\ pc = "processed" /\ last = "done"
    /\ failed # {}
    /\ session = "open" /\ cause = "none" /\ waited = 0

\* C16 (as claimed): every delivery that starts eventually ends.
C16_DeliveryEventuallyEnds ==
    (pc = "deliver") ~> (pc # "deliver")

\* C17 (as claimed): when a connection attempt is issued, no session of an
\* earlier attempt is still open.
C17_OneSessionAtATime ==
    pc = "connect" => session # "open"

\* C18: per record the callback is invoked at most once per subscriber, and
\* exactly once for an interested subscriber when the subscriber loop has
\* finished undisturbed, whatever the kinds list repeats and whether the
\* delivery failed; outside the processing of a record (at a connection
\* attempt, in the reconnect delay, at the read of the next frame) no record
\* and no delivery count is kept that could be dispatched again.
C18_AtMostOnce ==
    /\ \A s \in Subscribers : calls[s] <= 1
    /\ (pc = "processed" /\ last = "done" /\ ~disturbed) =>
           \A s \in Subscribers : Interested(s) => calls[s] = 1
    /\ pc \in {"connect", "sleep", "read", "exited"} =>
           (frame = NoFrame /\ calls = NoCalls)

\* A subscriber whose kinds list holds the kind twice, and whose delivery
\* failed, at the end of the record's dispatch.
C18_Witness ==
    /\ pc = "processed" /\ last = "done" /\ ~disturbed
    /\ change_type = "edit"
    /\ \E s \in failed :
           /\ settings[s].events = <<"block", "edit", "edit">>
           /\ calls[s] = 1

\* C19: a record is decoded only at the read position of the loop, which is
\* entered from a connection attempt or from the end of the previous
\* record's processing; a running delivery is left only towards the
\* subscriber loop (or by cancellation), and the processing of a record ends
\* with no delivery running.
C19_DispatchBeforeNextRecord ==
    [][ /\ (frame' # frame /\ frame' # NoFrame) => (pc = "read" /\ frame = NoFrame)
        /\ (pc' = "read" /\ pc # "read") => pc \in {"connect", "processed"}
        /\ (pc = "deliver" /\ pc' # "deliver") => pc' \in {"iter", "exited"}
        /\ (pc' = "processed" /\ pc # "processed") => pc \in {"read", "iter"} ]_vars

\* Both subscribers got the record, one after the other, before the next
\* frame is asked for.
C19_Witness ==
    /\ pc = "processed" /\ last = "done"
    /\ calls[1] = 1 /\ calls[2] = 1

\* C20 (as claimed): in main, a subscriber whose entry has kinds but no wiki
\* key never gets a delivery.
C20_NoWikiNoDelivery ==
    impl = "main" =>
        \A s \in Subscribers :
            (settings[s].hasEvents /\ settings[s].wiki = None) => calls[s] = 0

====
